---- MODULE Spec2Model ----
(***************************************************************************)
(* Order payment-state reconciliation of hy-florist_backend.               *)
(*                                                                         *)
(* The ledger (Order, OrderItem, StripeWebhookEvent rows), the requests in *)
(* flight (confirm_order, Stripe webhook, Django-admin PayMe confirmation, *)
(* API PayMe confirmation, PayMe order creation) and the mail dispatcher.  *)
(* Money is kept in cents (Decimal with two places), None is 0, a          *)
(* timestamp is the value of the clock `now` (>= 1) when it was taken.     *)
(***************************************************************************)
EXTENDS Integers, Sequences, FiniteSets, TLC

VARIABLES
    orders,         \* Order table: sequence of rows, primary key = index
    orderItems,     \* OrderItem table: sequence of rows
    webhookEvents,  \* StripeWebhookEvent table: set of rows (event_id unique)
    catalog,        \* Product table: product id -> price in cents
    req,            \* requests in flight / answered: slot -> record
    now,            \* timezone.now()
    sent,           \* order pk -> number of confirmation mails handed to send_mail
    handled,        \* event id -> number of times its handler was dispatched
    rates,          \* CurrencyRate table: sequence of rows in id order
    quote,          \* what the latest convert_hkd_to_usd call returned
    draft           \* the create_order call between its two reads of the catalog

vars ==
    <<orders, orderItems, webhookEvents, catalog, req, now, sent, handled,
      rates, quote, draft>>

(***************************************************************************)
(* Bounds of the model.                                                    *)
(***************************************************************************)
MaxOrders == 2
NumReq == 2
MaxClock == 2
MaxPI == 1
MaxRates == 2

Slots == 1..NumReq
PIs == 1..MaxPI
OrderIds == 1..MaxOrders
None == 0

(***************************************************************************)
(* Order model (models.py).                                                *)
(***************************************************************************)
PaymentStatuses == {"pending", "paid", "failed", "refunded"}

\* columns of the Order table
OrderFieldNames ==
    {"payment_method", "payment_status", "stripe_payment_intent_id", "status",
     "order_number", "subtotal", "delivery_fee", "discount", "total",
     "paid_at", "payment_verified_at", "confirmed_at"}

\* stripe_payment_intent_id is declared without unique=True: the table
\* accepts any value for it, whatever the other rows hold.
StripePaymentIntentIdUnique == FALSE

\* an order_number column without its unique index
order_number_unconstrained(tbl, row) == TRUE

\* order_number is declared unique=True: the insert of a row whose number
\* another row holds raises IntegrityError
order_number_free(tbl, row) ==
    \A i \in DOMAIN tbl : tbl[i].order_number # row.order_number

InsertAllowed(tbl, row) ==
    /\ order_number_free(tbl, row)
    /\ StripePaymentIntentIdUnique =>
          (row.stripe_payment_intent_id = None
           \/ \A i \in DOMAIN tbl :
                 tbl[i].stripe_payment_intent_id # row.stripe_payment_intent_id)

\* the values uuid4().hex[:5] takes; the date prefix is the same for orders
\* of one day and is left out
MaxSuffix == 2
OrderNumberSuffixes == 1..MaxSuffix

\* Order.save: an instance without an order number is given one
generate_order_number(row, suffix) ==
    IF row.order_number = None THEN [row EXCEPT !.order_number = suffix] ELSE row

\* Model.save(update_fields=fields): UPDATE .. SET the listed columns from
\* the in-memory instance WHERE pk = id.
save(tbl, id, inst, fields) ==
    [tbl EXCEPT ![id] = [f \in DOMAIN @ |-> IF f \in fields THEN inst[f] ELSE @[f]]]

\* update_fields of mark_as_paid without the lifecycle status
MarkPaidFieldsWithoutStatus ==
    {"payment_status", "paid_at", "payment_verified_at",
     "stripe_payment_intent_id"}

MarkPaidFields ==
    {"payment_status", "paid_at", "status", "payment_verified_at",
     "stripe_payment_intent_id"}

\* a mark_as_paid without the early return
mark_as_paid_always_saves(o) == TRUE

\* Order.mark_as_paid leaves the instance alone when it is already paid
mark_as_paid_saves(o) == o.payment_status # "paid"

\* a mark_as_paid that takes the supplied reference whatever the order holds
mark_as_paid_overwrites(o, pi, t) ==
    IF o.payment_status = "paid" THEN o
    ELSE [o EXCEPT
            !.stripe_payment_intent_id = IF pi # None THEN pi ELSE @,
            !.payment_status = "paid",
            !.status = "processing",
            !.paid_at = t,
            !.payment_verified_at = t]

\* Order.mark_as_paid on the in-memory instance o at time t
mark_as_paid(o, pi, t) ==
    IF ~mark_as_paid_saves(o) THEN o
    ELSE [o EXCEPT
            !.stripe_payment_intent_id =
                IF pi # None /\ @ = None THEN pi ELSE @,
            !.payment_status = "paid",
            !.status = "processing",
            !.paid_at = t,
            !.payment_verified_at = t]

\* a confirm_order that never writes
confirm_order_never_saves(o) == FALSE

confirm_order_saves(o) == o.confirmed_at = None

\* Order.confirm_order on the in-memory instance o at time t
confirm_order(o, t) ==
    IF confirm_order_saves(o) THEN [o EXCEPT !.confirmed_at = t] ELSE o

\* the instance's row after mark_as_paid(pi) followed by its save
AfterMarkPaid(tbl, id, o, pi, t) ==
    IF mark_as_paid_saves(o)
    THEN save(tbl, id, mark_as_paid(o, pi, t), MarkPaidFields)
    ELSE tbl

AfterConfirm(tbl, id, o, t) ==
    IF confirm_order_saves(o)
    THEN save(tbl, id, confirm_order(o, t), {"confirmed_at"})
    ELSE tbl

\* Order.objects.filter(stripe_payment_intent_id=pi): matching primary keys
ByIntent(tbl, pi) == {i \in DOMAIN tbl : tbl[i].stripe_payment_intent_id = pi}

Max(S) == CHOOSE x \in S : \A y \in S : x >= y

\* Order.objects.filter(stripe_payment_intent_id=pi).first() under
\* Meta.ordering = ['-created_at']: the row created last, None without one
FirstByIntent(tbl, pi) ==
    IF ByIntent(tbl, pi) = {} THEN None ELSE Max(ByIntent(tbl, pi))

(***************************************************************************)
(* Checkout serializer (orders/apis/serializers.py).  A payload is          *)
(* [items, delivery_days, contact_ok, payment_method]: the cart as a       *)
(* sequence of [product_id, quantity], the delivery date as days from      *)
(* today, whether the contact and address fields pass their length and     *)
(* format checks, and the client's payment_method.                          *)
(***************************************************************************)
MaxCartItems == 50
MaxQuantity == 100
MinQuantity == 1
MinLeadDays == 2
MaxHorizonDays == 90

SerializerPaymentMethods == {"stripe", "apple_pay", "payme"}

\* the lead time of the method's docstring ("at least 3 days")
validate_delivery_date_three_days(days) ==
    ~(days < 3) /\ ~(days > MaxHorizonDays)

validate_delivery_date(days) ==
    ~(days < MinLeadDays) /\ ~(days > MaxHorizonDays)

validate_items(items, cat) ==
    /\ Len(items) # 0
    /\ ~(Len(items) > MaxCartItems)
    /\ \A i, j \in DOMAIN items :
          items[i].product_id = items[j].product_id => i = j
    /\ \A i \in DOMAIN items : items[i].product_id \in DOMAIN cat
    /\ \A i \in DOMAIN items : ~(items[i].quantity > MaxQuantity)

is_valid(p, cat) ==
    /\ p.contact_ok
    /\ p.payment_method \in SerializerPaymentMethods
    /\ \A i \in DOMAIN p.items : p.items[i].quantity >= MinQuantity
    /\ validate_delivery_date(p.delivery_days)
    /\ validate_items(p.items, cat)

RECURSIVE SumLines(_, _, _)
SumLines(items, cat, n) ==
    IF n = 0 THEN 0
    ELSE SumLines(items, cat, n - 1)
         + cat[items[n].product_id] * items[n].quantity

\* a calculate_order_total that charges a delivery fee and leaves it out of
\* the total
calculate_order_total_fee_left_out(items, cat) ==
    LET subtotal == SumLines(items, cat, Len(items))
    IN  <<subtotal, 500, 0, subtotal>>

\* CheckoutSerializer.calculate_order_total: <<subtotal, fee, discount, total>>
calculate_order_total(items, cat) ==
    LET subtotal == SumLines(items, cat, Len(items))
        delivery_fee == 0
        discount == 0
    IN  <<subtotal, delivery_fee, discount, subtotal + delivery_fee - discount>>

\* keywords CheckoutSerializer.create_order declares
CreateOrderKeywords == {"stripe_payment_intent_id"}

\* a call create_order(**kw) binds only when every keyword is declared;
\* otherwise Python raises TypeError before the body runs
create_order_binds(kw) == kw \subseteq CreateOrderKeywords

\* the Order row CheckoutSerializer.create_order inserts
create_order_row(p, pi, cat) ==
    LET t == calculate_order_total(p.items, cat)
    IN  [payment_method |-> p.payment_method,
         payment_status |-> "pending",
         stripe_payment_intent_id |-> pi,
         order_number |-> None,
         status |-> "pending",
         subtotal |-> t[1], delivery_fee |-> t[2], discount |-> t[3],
         total |-> t[4],
         paid_at |-> None, payment_verified_at |-> None, confirmed_at |-> None]

\* the OrderItem rows CheckoutSerializer.create_order inserts for order id
create_order_items(p, id, cat) ==
    [i \in DOMAIN p.items |->
        [order |-> id,
         product |-> p.items[i].product_id,
         product_price |-> cat[p.items[i].product_id],
         quantity |-> p.items[i].quantity,
         line_total |-> cat[p.items[i].product_id] * p.items[i].quantity]]

(***************************************************************************)
(* Inputs the requests are drawn from.                                     *)
(***************************************************************************)
\* the catalog: product 1 at 100.00, product 2 at 50.00
InitCatalog == (1 :> 10000) @@ (2 :> 5000)

\* product 1 x 2 and product 2 x 1, delivered in two days
GoodPayload ==
    [items |-> <<[product_id |-> 1, quantity |-> 2],
                 [product_id |-> 2, quantity |-> 1]>>,
     delivery_days |-> 2, contact_ok |-> TRUE, payment_method |-> "stripe"]

NoPayload ==
    [items |-> <<>>, delivery_days |-> 0, contact_ok |-> FALSE,
     payment_method |-> ""]

\* payloads of the reconciliation specification: a card checkout, a PayMe
\* checkout and a checkout with an empty cart
Payloads ==
    {GoodPayload,
     [GoodPayload EXCEPT !.payment_method = "payme"],
     [GoodPayload EXCEPT !.items = <<>>]}

\* amounts (cents) the gateway reports as captured
Amounts == {25000, 25002}

\* what stripe.PaymentIntent.retrieve answers
GatewayAnswers == {"succeeded", "processing", "invalid_request", "stripe_error"}

\* Stripe events: the id of an event fixes its type and the payment intent
\* (for charge.refunded: the charge's payment_intent, which may be null)
HandledEventTypes ==
    {"payment_intent.succeeded", "payment_intent.payment_failed",
     "charge.refunded"}

EventTypes == HandledEventTypes \cup {"payment_intent.created"}

Events == (EventTypes \X PIs) \cup {<<"charge.refunded", None>>}

Signatures == {"valid", "invalid", "missing", "bad_payload"}

\* the gateway's payment-method details: [type, wallet], wallet the
\* card.wallet.type ("" without a wallet); type "" is no details at all
PaymentMethodDetails ==
    {[type |-> "card", wallet |-> ""], [type |-> "alipay", wallet |-> ""]}

(***************************************************************************)
(* Currency service (utils/currency_service.py).  A rate is HKD per USD    *)
(* in hundredths (7.80 is 780), money is in cents, created_at is the       *)
(* clock in days.                                                          *)
(***************************************************************************)
FALLBACK_RATE == 780
MinSaneRate == 750
MaxSaneRate == 850
RateKeepDays == 90

\* what the rate API answers: a failure, or a rate for HKD
ApiAnswers ==
    {[ok |-> FALSE, hkd |-> 0], [ok |-> TRUE, hkd |-> 740],
     [ok |-> TRUE, hkd |-> 775], [ok |-> TRUE, hkd |-> 785]}

\* HKD totals handed to convert_hkd_to_usd, in cents
HkdAmounts == {25000, 780, 1170, 390}

\* fetch_exchange_rate_from_api: the rate, None on any failure or when the
\* rate is outside the accepted range
fetch_exchange_rate_from_api(ans) ==
    IF ans.ok /\ MinSaneRate <= ans.hkd /\ ans.hkd <= MaxSaneRate
    THEN ans.hkd ELSE None

\* a get_latest_rate over a table ordered by id ascending
get_latest_rate_oldest(tbl) == IF Len(tbl) = 0 THEN None ELSE tbl[1].rate

\* get_latest_rate: the rate of the row with the greatest id (Meta.ordering
\* = ['-id']), None without a row
get_latest_rate(tbl) == IF Len(tbl) = 0 THEN None ELSE tbl[Len(tbl)].rate

\* get_exchange_rate: the stored rate, FALLBACK_RATE without one
get_exchange_rate(tbl) ==
    IF get_latest_rate(tbl) = None THEN FALLBACK_RATE ELSE get_latest_rate(tbl)

\* Decimal.quantize under the default context (ROUND_HALF_EVEN) of n / d
RoundHalfEven(n, d) ==
    LET q == n \div d
        rem == n % d
    IN  IF 2 * rem > d THEN q + 1
        ELSE IF 2 * rem < d THEN q
        ELSE IF q % 2 = 0 THEN q ELSE q + 1

\* convert_hkd_to_usd: <<amount_usd, exchange_rate>>
convert_hkd_to_usd(amount_hkd, tbl) ==
    <<RoundHalfEven(amount_hkd * 100, get_exchange_rate(tbl)),
      get_exchange_rate(tbl)>>

\* the id the table gives the next row
NextRateId(tbl) == IF Len(tbl) = 0 THEN 1 ELSE tbl[Len(tbl)].id + 1

\* CurrencyRate.objects.create(base_currency='USD', target_currency='HKD')
create_rate(tbl, rate, t) ==
    Append(tbl, [id |-> NextRateId(tbl), rate |-> rate, created_at |-> t])

\* a cleanup whose cutoff is the present moment
cleanup_old_rates_to_now(tbl, days_to_keep, t) ==
    SelectSeq(tbl, LAMBDA row : ~(row.created_at <= t))

\* cleanup_old_rates(days_to_keep): delete the rows created before the cutoff
cleanup_old_rates(tbl, days_to_keep, t) ==
    SelectSeq(tbl, LAMBDA row : ~(row.created_at < t - days_to_keep))

NoQuote ==
    [asked |-> FALSE, amount_hkd |-> 0, latest |-> None, amount_usd |-> 0,
     exchange_rate |-> None, error |-> ""]

\* no create_order call is between its reads
NoDraft == [active |-> FALSE, payload |-> NoPayload, pi |-> None, totals |-> <<>>]

(***************************************************************************)
(* Requests.                                                               *)
(***************************************************************************)
NoOrder ==
    [payment_method |-> "", payment_status |-> "", stripe_payment_intent_id |-> None,
     order_number |-> None,
     status |-> "", subtotal |-> 0, delivery_fee |-> 0, discount |-> 0,
     total |-> 0, paid_at |-> None, payment_verified_at |-> None,
     confirmed_at |-> None]

NoReq ==
    [kind |-> "none", pc |-> "idle", pi |-> None, ev |-> <<>>, oid |-> None,
     snap |-> NoOrder, payload |-> NoPayload, paid |-> 0, method |-> "",
     sig |-> "", gw |-> "", code |-> 0, body |-> "", rorder |-> None]

\* slots are taken in order
Idle(r) == req[r].pc = "idle" /\ \A q \in Slots : q < r => req[q].pc # "idle"

\* slot r takes a request of this kind
Begin(r, kind, pi, ev, oid) ==
    [req EXCEPT ![r] = [@ EXCEPT !.kind = kind, !.pi = pi, !.ev = ev, !.oid = oid]]

\* the request of slot r ends with this response
Respond(rq, r, code, body, rorder) ==
    [rq EXCEPT ![r] = [@ EXCEPT !.pc = "done", !.code = code, !.body = body,
                                !.rorder = rorder, !.snap = NoOrder,
                                !.method = ""]]

Init ==
    /\ orders = <<>>
    /\ orderItems = <<>>
    /\ webhookEvents = {}
    /\ catalog = InitCatalog
    /\ req = [r \in Slots |-> NoReq]
    /\ now = 1
    /\ sent = [i \in OrderIds |-> 0]
    /\ handled = [e \in Events |-> 0]
    /\ rates = <<>>
    /\ quote = NoQuote
    /\ draft = NoDraft

\* time passes
Tick ==
    /\ now < MaxClock
    /\ now' = now + 1
    /\ UNCHANGED <<orders, orderItems, webhookEvents, catalog, rates, quote, draft, req, sent, handled>>

(***************************************************************************)
(* CheckoutSerializer.create_order, called with the keywords it declares:  *)
(* inserts a pending order and its items.  Every view of this source tree  *)
(* calls it with further keywords (see ConfirmOrderCreate, CreatePayMe-     *)
(* Order); the rows of the ledger are those of calls that bind.            *)
(***************************************************************************)
CreateOrder ==
    \E p \in Payloads, pi \in PIs \cup {None}, n \in OrderNumberSuffixes :
        /\ Len(orders) < MaxOrders
        /\ create_order_binds({"stripe_payment_intent_id"})
        /\ is_valid(p, catalog)
        /\ InsertAllowed(orders,
                         generate_order_number(create_order_row(p, pi, catalog), n))
        /\ orders' = Append(orders,
                         generate_order_number(create_order_row(p, pi, catalog), n))
        /\ orderItems' = orderItems \o create_order_items(p, Len(orders) + 1, catalog)
        /\ UNCHANGED <<webhookEvents, catalog, rates, quote, draft, req, now, sent, handled>>

(***************************************************************************)
(* StripeWebhookView (orders/apis/views.py).                               *)
(***************************************************************************)
\* a view that trusts every delivery
signature_unchecked(sig) == TRUE

\* stripe.Webhook.construct_event accepts the delivery
signature_ok(sig) == sig = "valid"

\* a dedup record that never recognises an event id
get_or_create_always_created(tbl, e) == TRUE

\* StripeWebhookEvent.objects.get_or_create(event_id=e): whether the row
\* was created by this call (event_id is unique, the call is atomic)
get_or_create_created(tbl, e) == e \notin tbl

\* a handle_refund that looks the order up whatever the charge's intent is
HasHandlerForAnyCharge(e) == e[1] \in HandledEventTypes

\* the handler of the event type reads the order by the intent id
HasHandler(e) == e[1] \in HandledEventTypes /\ ~(e[1] = "charge.refunded" /\ e[2] = None)

\* post, up to the dispatch: signature, dedup record
WebhookReceive(r) ==
    \E e \in Events, sig \in Signatures :
        /\ Idle(r)
        /\ LET rq == [Begin(r, "webhook", e[2], e, None) EXCEPT ![r].sig = sig] IN
           IF ~signature_ok(sig)
           THEN /\ req' = Respond(rq, r, 400, "bad_signature", None)
                /\ UNCHANGED <<webhookEvents, handled>>
           ELSE IF ~get_or_create_created(webhookEvents, e)
           THEN /\ req' = Respond(rq, r, 200, "duplicate", None)
                /\ UNCHANGED <<webhookEvents, handled>>
           ELSE /\ webhookEvents' = webhookEvents \cup {e}
                /\ handled' = [handled EXCEPT ![e] = @ + 1]
                /\ IF HasHandler(e)
                   THEN req' = [rq EXCEPT ![r].pc = "wh_load"]
                   ELSE req' = Respond(rq, r, 200, "ignored", None)
        /\ UNCHANGED <<orders, orderItems, catalog, rates, quote, draft, now, sent>>

\* the handler's Order.objects.get(stripe_payment_intent_id=pi_id):
\* DoesNotExist is logged, MultipleObjectsReturned is caught nowhere
WebhookLoad(r) ==
    /\ req[r].pc = "wh_load"
    /\ LET found == ByIntent(orders, req[r].pi) IN
        IF found = {}
        THEN req' = Respond(req, r, 200, "no_order", None)
        ELSE IF Cardinality(found) > 1
        THEN req' = Respond(req, r, 500, "MultipleObjectsReturned", None)
        ELSE req' = [req EXCEPT ![r] =
                       [@ EXCEPT !.pc = "wh_apply",
                                 !.oid = Max(found),
                                 !.snap = orders[Max(found)]]]
    /\ UNCHANGED <<orders, orderItems, webhookEvents, catalog, rates, quote, draft, now, sent, handled>>

\* handle_payment_failure writes unless the instance is already failed
payment_failure_saves(o) == o.payment_status # "failed"

\* handle_refund writes unless the instance is already refunded
refund_saves(o) == o.payment_status # "refunded"

\* the rest of the handler: the check on the loaded instance and its save
handle_event(tbl, id, o, e, t) ==
    IF e[1] = "payment_intent.succeeded"
    THEN IF o.payment_status # "paid" THEN AfterMarkPaid(tbl, id, o, e[2], t) ELSE tbl
    ELSE IF e[1] = "payment_intent.payment_failed"
    THEN IF payment_failure_saves(o)
         THEN save(tbl, id, [o EXCEPT !.payment_status = "failed", !.status = "failed"],
                   {"payment_status", "status"})
         ELSE tbl
    ELSE IF refund_saves(o)
         THEN save(tbl, id, [o EXCEPT !.payment_status = "refunded", !.status = "refunded"],
                   {"payment_status", "status"})
         ELSE tbl

WebhookApply(r) ==
    /\ req[r].pc = "wh_apply"
    /\ orders' = handle_event(orders, req[r].oid, req[r].snap, req[r].ev, now)
    /\ req' = Respond(req, r, 200, "handled", None)
    /\ UNCHANGED <<orderItems, webhookEvents, catalog, rates, quote, draft, now, sent, handled>>

(***************************************************************************)
(* CreatePaymentIntentView (orders/apis/views.py): validates the payload,  *)
(* computes the total and asks the gateway for an intent; it reads the     *)
(* catalog and writes no table.                                            *)
(***************************************************************************)
\* the total above which no intent is created, in cents
MaxIntentTotal == 10000000

\* what stripe.PaymentIntent.create answers
IntentAnswers ==
    {"created", "card_error", "rate_limit", "invalid_request",
     "authentication", "stripe_error"}

\* the status of the response for each gateway answer
intent_response_code(ans) ==
    IF ans = "created" THEN 200
    ELSE IF ans = "card_error" THEN 400
    ELSE IF ans = "rate_limit" THEN 429
    ELSE 500

CreatePaymentIntent(r) ==
    /\ Idle(r)
    /\ \E p \in Payloads, ans \in IntentAnswers :
        /\ LET rq == [Begin(r, "intent", None, <<>>, None) EXCEPT ![r].payload = p] IN
           IF ~is_valid(p, catalog)
           THEN req' = Respond(rq, r, 400, "validation_error", None)
           ELSE IF calculate_order_total(p.items, catalog)[4] <= 0
           THEN req' = Respond(rq, r, 400, "invalid_total", None)
           ELSE IF calculate_order_total(p.items, catalog)[4] > MaxIntentTotal
           THEN req' = Respond(rq, r, 400, "total_exceeds_limit", None)
           ELSE req' = Respond([rq EXCEPT ![r].gw = ans], r,
                               intent_response_code(ans), ans, None)
    /\ UNCHANGED <<orders, orderItems, webhookEvents, catalog, rates, quote, draft,
                   now, sent, handled>>

(***************************************************************************)
(* ConfirmOrderView (orders/apis/views.py).                                *)
(***************************************************************************)
\* STEP 1, the method detected from the gateway's payment-method details
actual_payment_method(pm) ==
    IF pm.type = "" THEN "card_pay"
    ELSE IF pm.type = "alipay" THEN "alipay"
    ELSE IF pm.type = "card"
         THEN IF pm.wallet = "google_pay" THEN "google_pay"
              ELSE IF pm.wallet = "apple_pay" THEN "apple_pay"
              ELSE "card_pay"
    ELSE IF pm.type \in {"google_pay", "apple_pay"} THEN pm.type
    ELSE "card_pay"

Abs(x) == IF x < 0 THEN -x ELSE x

\* the rounding allowance of STEP 4, in cents
AmountTolerance == 1

\* the comparison with a tolerance of two cents
amount_mismatch_two_cents(paid, expected) == Abs(paid - expected) > 2

\* the comparison with the tolerance itself rejected
amount_mismatch_inclusive(paid, expected) ==
    Abs(paid - expected) >= AmountTolerance

\* STEP 4: abs(paid_amount - expected_total) > Decimal('0.01')
amount_mismatch(paid, expected) == Abs(paid - expected) > AmountTolerance

\* keywords of the call serializer.create_order(...) in STEP 5
ConfirmOrderCallKeywords == {"stripe_payment_intent_id", "payment_method"}

\* a check that lets an intent still processing through
intent_succeeded_or_processing(gw) == gw \in {"succeeded", "processing"}

\* STEP 1: payment_intent.status != 'succeeded' ends the request
intent_succeeded(gw) == gw = "succeeded"

\* STEPS 1-4: the gateway's answer, the existence check, the payload
\* and the amount; the request keeps its payload and the captured amount
ConfirmOrderCheckOn(r, pis, answers, amounts, payloads) ==
    /\ Idle(r)
    /\ \E pi \in pis, gw \in answers, paid \in amounts,
          pm \in PaymentMethodDetails, p \in payloads :
        /\ LET rq == [Begin(r, "confirm", pi, <<>>, None)
                        EXCEPT ![r].payload = p, ![r].paid = paid,
                               ![r].gw = IF pi = None THEN "" ELSE gw]
               existing == FirstByIntent(orders, pi)
           IN
           IF pi = None
           THEN req' = Respond(rq, r, 400, "missing_payment_intent_id", None)
           ELSE IF gw = "invalid_request"
           THEN req' = Respond(rq, r, 400, "invalid_payment_intent", None)
           ELSE IF gw = "stripe_error"
           THEN req' = Respond(rq, r, 500, "stripe_error", None)
           ELSE IF ~intent_succeeded(gw)
           THEN req' = Respond(rq, r, 400, "payment_not_succeeded", None)
           ELSE IF existing # None
           THEN req' = Respond(rq, r, 200, "order_existing", existing)
           ELSE IF ~is_valid(p, catalog)
           THEN req' = Respond(rq, r, 400, "validation_error", None)
           ELSE IF amount_mismatch(paid, calculate_order_total(p.items, catalog)[4])
           THEN req' = Respond(rq, r, 400, "amount_mismatch", None)
           ELSE req' = [rq EXCEPT ![r].pc = "co_create",
                                  ![r].method = actual_payment_method(pm)]
        /\ UNCHANGED <<orders, orderItems, webhookEvents, catalog, rates, quote, draft, now, sent, handled>>

ConfirmOrderCheck(r) ==
    ConfirmOrderCheckOn(r, PIs \cup {None}, GatewayAnswers, Amounts, Payloads)

\* STEPS 5-6: the call of create_order; were it to bind, the order, its
\* items, mark_as_paid and confirm_order in one transaction (an
\* IntegrityError answers with the existing order), then the mail
ConfirmOrderCreate(r) ==
    /\ req[r].pc = "co_create"
    /\ IF ~create_order_binds(ConfirmOrderCallKeywords)
       THEN /\ req' = Respond(req, r, 500, "TypeError", None)
            /\ UNCHANGED <<orders, orderItems, sent>>
       ELSE \E n \in OrderNumberSuffixes :
            LET row == generate_order_number(
                           create_order_row(req[r].payload, req[r].pi, catalog), n)
                id == Len(orders) + 1
            IN
            IF ~InsertAllowed(orders, row)
            THEN /\ req' = Respond(req, r, 200, "order_conflict",
                                   FirstByIntent(orders, req[r].pi))
                 /\ UNCHANGED <<orders, orderItems, sent>>
            ELSE /\ Len(orders) < MaxOrders
                 /\ orders' = Append(orders,
                                 confirm_order(mark_as_paid(row, req[r].pi, now), now))
                 /\ orderItems' = orderItems
                                    \o create_order_items(req[r].payload, id, catalog)
                 /\ \E mail_ok \in BOOLEAN :
                        sent' = [sent EXCEPT ![id] = IF mail_ok THEN @ + 1 ELSE @]
                 /\ req' = Respond(req, r, 201, "order_created", id)
    /\ UNCHANGED <<webhookEvents, catalog, rates, quote, draft, now, handled>>

(***************************************************************************)
(* Django admin: confirm_payme_view / confirm_payme_payment calling        *)
(* _do_confirm_payme (orders/admin.py), mail by utils/email.py.            *)
(***************************************************************************)
\* send_order_confirmation_email reads order.language before it renders
\* or sends anything; an attribute the instance lacks raises AttributeError
AdminMailReads == {"language"}

admin_mail_reaches_send_mail == AdminMailReads \subseteq OrderFieldNames

\* the view's Order.objects.get(pk=order_id), or the action's queryset row
AdminLoad(r) ==
    \E id \in OrderIds :
        /\ Idle(r)
        /\ IF id \notin DOMAIN orders
           THEN req' = Respond(Begin(r, "admin", None, <<>>, id), r,
                               404, "not_found", None)
           ELSE req' = [Begin(r, "admin", None, <<>>, id)
                          EXCEPT ![r].pc = "ad_mark", ![r].snap = orders[id]]
        /\ UNCHANGED <<orders, orderItems, webhookEvents, catalog, rates, quote, draft, now, sent, handled>>

\* _do_confirm_payme up to order.mark_as_paid()
AdminMarkPaid(r) ==
    /\ req[r].pc = "ad_mark"
    /\ IF req[r].snap.payment_method # "payme"
       THEN /\ req' = Respond(req, r, 0, "False:not_payme", None)
            /\ UNCHANGED orders
       ELSE IF req[r].snap.payment_status = "paid"
       THEN /\ req' = Respond(req, r, 0, "True:already_confirmed", req[r].oid)
            /\ UNCHANGED orders
       ELSE /\ orders' = AfterMarkPaid(orders, req[r].oid, req[r].snap, None, now)
            /\ req' = [req EXCEPT ![r].pc = "ad_confirm",
                                  ![r].snap = mark_as_paid(req[r].snap, None, now)]
    /\ UNCHANGED <<orderItems, webhookEvents, catalog, rates, quote, draft, now, sent, handled>>

\* order.confirm_order(), then the mail
AdminConfirm(r) ==
    /\ req[r].pc = "ad_confirm"
    /\ orders' = AfterConfirm(orders, req[r].oid, req[r].snap, now)
    /\ IF ~admin_mail_reaches_send_mail
       THEN /\ req' = Respond(req, r, 0, "True:email_failed", req[r].oid)
            /\ UNCHANGED sent
       ELSE \E mail_ok \in BOOLEAN :
              IF mail_ok
              THEN /\ sent' = [sent EXCEPT ![req[r].oid] = @ + 1]
                   /\ req' = Respond(req, r, 0, "True:email_sent", req[r].oid)
              ELSE /\ req' = Respond(req, r, 0, "True:email_failed", req[r].oid)
                   /\ UNCHANGED sent
    /\ UNCHANGED <<orderItems, webhookEvents, catalog, rates, quote, draft, now, handled>>

(***************************************************************************)
(* ConfirmPayMePaymentView and CreatePayMeOrderView                        *)
(* (orders/apis/payme_views.py).                                           *)
(***************************************************************************)
\* Order.objects.get(order_number=...)
PayMeConfirmLoad(r) ==
    \E id \in OrderIds \cup {None} :
        /\ Idle(r)
        /\ IF id = None
           THEN req' = Respond(Begin(r, "payme_confirm", None, <<>>, id), r,
                               400, "order_number_required", None)
           ELSE IF id \notin DOMAIN orders
           THEN req' = Respond(Begin(r, "payme_confirm", None, <<>>, id), r,
                               404, "not_found", None)
           ELSE req' = [Begin(r, "payme_confirm", None, <<>>, id)
                          EXCEPT ![r].pc = "pm_apply", ![r].snap = orders[id]]
        /\ UNCHANGED <<orders, orderItems, webhookEvents, catalog, rates, quote, draft, now, sent, handled>>

\* the checks, mark_as_paid and confirm_order in one transaction, the mail
PayMeConfirmApply(r) ==
    /\ req[r].pc = "pm_apply"
    /\ IF req[r].snap.payment_status = "paid"
       THEN /\ req' = Respond(req, r, 200, "order", req[r].oid)
            /\ UNCHANGED <<orders, sent>>
       ELSE IF req[r].snap.payment_method # "payme"
       THEN /\ req' = Respond(req, r, 400, "not_payme", None)
            /\ UNCHANGED <<orders, sent>>
       ELSE /\ orders' = AfterConfirm(
                            AfterMarkPaid(orders, req[r].oid, req[r].snap, None, now),
                            req[r].oid, mark_as_paid(req[r].snap, None, now), now)
            /\ \E mail_ok \in BOOLEAN :
                   sent' = [sent EXCEPT ![req[r].oid] = IF mail_ok THEN @ + 1 ELSE @]
            /\ req' = Respond(req, r, 200, "confirmed", req[r].oid)
    /\ UNCHANGED <<orderItems, webhookEvents, catalog, rates, quote, draft, now, handled>>

\* keywords of the call serializer.create_order(...) in CreatePayMeOrderView
PayMeCreateCallKeywords ==
    {"stripe_payment_intent_id", "payment_method", "payment_currency",
     "exchange_rate", "total_usd"}

CreatePayMeOrder(r) ==
    \E p \in Payloads :
        /\ Idle(r)
        /\ LET rq == Begin(r, "payme_create", None, <<>>, None) IN
           IF ~is_valid(p, catalog)
           THEN /\ req' = Respond(rq, r, 400, "validation_error", None)
                /\ UNCHANGED <<orders, orderItems>>
           ELSE IF calculate_order_total(p.items, catalog)[4] <= 0
           THEN /\ req' = Respond(rq, r, 400, "invalid_total", None)
                /\ UNCHANGED <<orders, orderItems>>
           ELSE IF ~create_order_binds(PayMeCreateCallKeywords)
           THEN /\ req' = Respond(rq, r, 500, "TypeError", None)
                /\ UNCHANGED <<orders, orderItems>>
           ELSE \E n \in OrderNumberSuffixes :
                /\ Len(orders) < MaxOrders
                /\ InsertAllowed(orders,
                       generate_order_number(create_order_row(p, None, catalog), n))
                /\ orders' = Append(orders,
                       generate_order_number(create_order_row(p, None, catalog), n))
                /\ orderItems' = orderItems
                                   \o create_order_items(p, Len(orders) + 1, catalog)
                /\ req' = Respond(rq, r, 201, "payme_link", Len(orders) + 1)
        /\ UNCHANGED <<webhookEvents, catalog, rates, quote, draft, now, sent, handled>>

Next ==
    \/ Tick
    \/ CreateOrder
    \/ \E r \in Slots :
        \/ CreatePaymentIntent(r)
        \/ WebhookReceive(r)
        \/ WebhookLoad(r)
        \/ WebhookApply(r)
        \/ ConfirmOrderCheck(r)
        \/ ConfirmOrderCreate(r)
        \/ AdminLoad(r)
        \/ AdminMarkPaid(r)
        \/ AdminConfirm(r)
        \/ PayMeConfirmLoad(r)
        \/ PayMeConfirmApply(r)
        \/ CreatePayMeOrder(r)

Spec == Init /\ [][Next]_vars

(***************************************************************************)
(* The checkout validation on its own: one confirm_order request over a    *)
(* catalog of 51 products at 1.00, carts and delivery dates around the     *)
(* limits of the serializer.                                               *)
(***************************************************************************)
ValidateCatalog == [i \in 1..(MaxCartItems + 1) |-> 100]

\* a cart of the products 1..n, one of each
CartOf(n) == [i \in 1..n |-> [product_id |-> i, quantity |-> 1]]

ValidateCarts ==
    {<<>>,
     <<[product_id |-> 1, quantity |-> 1]>>,
     <<[product_id |-> 1, quantity |-> 1], [product_id |-> 1, quantity |-> 2]>>,
     <<[product_id |-> 1, quantity |-> 1], [product_id |-> 99, quantity |-> 1]>>,
     <<[product_id |-> 1, quantity |-> 100]>>,
     <<[product_id |-> 1, quantity |-> 101]>>,
     CartOf(50),
     CartOf(51)}

ValidateDays == {0, 1, 2, 3, 89, 90, 91}

ValidatePayloads ==
    {[items |-> c, delivery_days |-> d, contact_ok |-> k,
      payment_method |-> "stripe"] :
        c \in ValidateCarts, d \in ValidateDays, k \in BOOLEAN}

\* the totals of the carts that pass, in cents
ValidateAmounts == {100, 10000, 5000}

InitValidate ==
    /\ orders = <<>>
    /\ orderItems = <<>>
    /\ webhookEvents = {}
    /\ catalog = ValidateCatalog
    /\ req = [r \in Slots |-> NoReq]
    /\ now = 1
    /\ sent = [i \in OrderIds |-> 0]
    /\ handled = [e \in Events |-> 0]
    /\ rates = <<>>
    /\ quote = NoQuote
    /\ draft = NoDraft

NextValidate ==
    \/ ConfirmOrderCheckOn(1, PIs, {"succeeded"}, ValidateAmounts,
                           ValidatePayloads)
    \/ ConfirmOrderCreate(1)

SpecValidate == InitValidate /\ [][NextValidate]_vars

(***************************************************************************)
(* The currency reference store: the scheduled update_exchange_rate and    *)
(* the conversion of a total.                                              *)
(***************************************************************************)
\* update_exchange_rate: API failure with a stored rate stores nothing,
\* API failure without one stores the fallback, success stores the rate
\* and cleans up
UpdateExchangeRateOn(ans) ==
    /\ LET rate == fetch_exchange_rate_from_api(ans) IN
       IF rate = None
       THEN IF get_latest_rate(rates) # None
            THEN rates' = rates
            ELSE rates' = create_rate(rates, FALLBACK_RATE, now)
       ELSE /\ Len(rates) < MaxRates
            /\ rates' = cleanup_old_rates(create_rate(rates, rate, now),
                                          RateKeepDays, now)
    /\ UNCHANGED <<orders, orderItems, webhookEvents, catalog, req, now,
                   sent, handled, quote, draft>>

UpdateExchangeRate == \E ans \in ApiAnswers : UpdateExchangeRateOn(ans)

\* the clock of the rate store counts days: between two runs the retention
\* period passes, or a day more than that
MaxDay == 183
DayJumps == {RateKeepDays, RateKeepDays + 1}

DaysPass ==
    \E d \in DayJumps :
        /\ now + d <= MaxDay
        /\ now' = now + d
        /\ UNCHANGED <<orders, orderItems, webhookEvents, catalog, rates, quote,
                       draft, req, sent, handled>>

\* a call of convert_hkd_to_usd
ConvertHkdToUsd ==
    \E amount_hkd \in HkdAmounts :
        /\ quote' = [asked |-> TRUE, amount_hkd |-> amount_hkd,
                     latest |-> get_latest_rate(rates),
                     amount_usd |-> convert_hkd_to_usd(amount_hkd, rates)[1],
                     exchange_rate |-> convert_hkd_to_usd(amount_hkd, rates)[2],
                     error |-> ""]
        /\ UNCHANGED <<orders, orderItems, webhookEvents, catalog, req, now,
                       sent, handled, rates, draft>>

NextCurrency ==
    \/ DaysPass
    \/ UpdateExchangeRate
    \/ ConvertHkdToUsd

SpecCurrency == Init /\ [][NextCurrency]_vars

(***************************************************************************)
(* The amount verification of confirm_order on its own: one request, the   *)
(* captured amount drawn from AmountSpread cents around each cart's total. *)
(***************************************************************************)
AmountSpread == 50

AmountPayloads ==
    {GoodPayload,
     [GoodPayload EXCEPT !.items = <<[product_id |-> 1, quantity |-> 2]>>]}

WideAmounts ==
    {calculate_order_total(p.items, InitCatalog)[4] + d :
        p \in AmountPayloads, d \in (0 - AmountSpread)..AmountSpread}

NextAmount ==
    \/ CreateOrder
    \/ ConfirmOrderCheckOn(1, PIs, {"succeeded", "processing"}, WideAmounts,
                           AmountPayloads)
    \/ ConfirmOrderCreate(1)

SpecAmount == Init /\ [][NextAmount]_vars

(***************************************************************************)
(* Properties.                                                             *)
(***************************************************************************)
IsConfirm(r) == req[r].kind = "confirm"

\* the confirm_order request of slot r got to STEP 5
ReachedCreate(rq) ==
    rq.kind = "confirm" /\ rq.pc = "done"
    /\ rq.body \in {"TypeError", "order_conflict", "order_created"}

SuccessCode(c) == c \in {200, 201}

\* C1: no two persisted orders carry the same non-null
\* stripe_payment_intent_id (the table rejects the second insert).
C1_UniqueReference ==
    \A i, j \in DOMAIN orders :
        (i # j /\ orders[i].stripe_payment_intent_id # None)
            => orders[i].stripe_payment_intent_id # orders[j].stripe_payment_intent_id

\* C2: when two confirm_order requests for the same succeeded payment
\* reference have both passed the existence check before either created,
\* each of them ends with a success response carrying the order, the two
\* responses carry the same order, and exactly one order is persisted for
\* the reference.
C2_RaceOneOrderBothSucceed ==
    [][\A r1, r2 \in Slots :
         /\ (/\ r1 # r2
             /\ req[r1].pc = "co_create" /\ req[r2].pc = "co_create"
             /\ req[r1].pi = req[r2].pi
             /\ req'[r1].pc = "done")
            => (/\ SuccessCode(req'[r1].code)
                /\ req'[r1].rorder # None
                /\ Cardinality(ByIntent(orders', req[r1].pi)) = 1)
         /\ (/\ r1 # r2
             /\ ReachedCreate(req[r1]) /\ req[r2].pc = "co_create"
             /\ req[r1].pi = req[r2].pi
             /\ req'[r2].pc = "done")
            => (/\ SuccessCode(req'[r2].code)
                /\ req'[r2].rorder = req[r1].rorder
                /\ req'[r2].rorder # None
                /\ Cardinality(ByIntent(orders', req[r2].pi)) = 1)]_vars

\* C3: confirm_order called twice in sequence with the same payment
\* reference: the first call creates the order (Created), the second
\* returns that same order with OK whatever its payload, exactly one Order
\* row exists for the reference and at most one notification was sent.
C3_SequentialIdempotent ==
    [][\A r \in Slots :
         /\ (req[r].pc = "co_create" /\ req'[r].pc = "done")
            => (/\ req'[r].code = 201
                /\ req'[r].rorder \in DOMAIN orders'
                /\ Cardinality(ByIntent(orders', req[r].pi)) = 1)
         /\ \A r1 \in Slots :
              (/\ r1 # r
               /\ ReachedCreate(req[r1])
               /\ Idle(r) /\ req'[r].kind = "confirm"
               /\ req'[r].pi = req[r1].pi
               /\ req'[r].body \notin {"invalid_payment_intent", "stripe_error",
                                      "payment_not_succeeded"})
              => (/\ req'[r].pc = "done"
                  /\ req'[r].code = 200
                  /\ req'[r].rorder = req[r1].rorder
                  /\ req'[r].rorder # None
                  /\ orders' = orders
                  /\ Cardinality(ByIntent(orders', req[r].pi)) = 1
                  /\ sent'[req'[r].rorder] <= 1)]_vars

\* C4: sticky success: the payment-failed handler applied to an order
\* that is paid (in the ledger and as the handler loaded it) leaves
\* payment_status paid and status unchanged.
C4_StickySuccess ==
    [][\A r \in Slots :
         (/\ req[r].pc = "wh_apply" /\ req'[r].pc = "done"
          /\ req[r].ev[1] = "payment_intent.payment_failed"
          /\ req[r].snap.payment_status = "paid"
          /\ orders[req[r].oid].payment_status = "paid")
         => (/\ orders'[req[r].oid].payment_status = "paid"
             /\ orders'[req[r].oid].status = orders[req[r].oid].status)]_vars

\* a delivery of event e that passed the signature check
Delivered(rq, e) == rq.kind = "webhook" /\ rq.ev = e /\ rq.body # "bad_signature"

\* C5: webhook dedup: the handler of an event identifier is dispatched at
\* most once however often it is delivered; of the deliveries of one
\* identifier at most one gets past the dedup record, and every other one
\* has ended 200 as a duplicate.
C5_WebhookDedup ==
    /\ \A e \in Events : handled[e] <= 1
    /\ \A r1, r2 \in Slots :
         (r1 # r2 /\ Delivered(req[r1], req[r1].ev) /\ Delivered(req[r2], req[r1].ev))
         => \E r \in {r1, r2} :
               req[r].pc = "done" /\ req[r].code = 200 /\ req[r].body = "duplicate"

\* two deliveries of one event: one handled, one skipped as a duplicate
C5_Witness ==
    \E r1, r2 \in Slots :
        /\ r1 # r2
        /\ Delivered(req[r1], req[r1].ev) /\ Delivered(req[r2], req[r1].ev)
        /\ req[r1].body = "handled" /\ req[r2].body = "duplicate"
        /\ req[r1].ev[1] = "payment_intent.succeeded"
        /\ handled[req[r1].ev] = 1

\* a step of slot r that runs an entry point's mark-paid on the instance
\* it loaded: the admin confirmation, the API confirmation, the success
\* webhook
MarkPaidStep(r) ==
    \/ req[r].pc = "ad_mark" /\ req[r].snap.payment_method = "payme"
    \/ req[r].pc = "pm_apply"
    \/ req[r].pc = "wh_apply" /\ req[r].ev[1] = "payment_intent.succeeded"

C9_AtMostOneNotification ==
    \A i \in DOMAIN orders : sent[i] <= 1

\* a manual confirmation (admin or API) answered as a failure
ManualRejected(rq) ==
    \/ rq.kind = "admin" /\ rq.body = "False:not_payme"
    \/ rq.kind = "payme_confirm" /\ rq.code = 400

\* C10: a manual confirmation of an order whose payment method is not
\* payme is rejected whatever the order's payment_status, changes no row
\* and sends no mail.
C10_NonPayMeRejected ==
    [][\A r \in Slots :
         (/\ req[r].pc \in {"ad_mark", "pm_apply"}
          /\ req[r].snap.payment_method # "payme"
          /\ req'[r] # req[r])
         => (/\ req'[r].pc = "done"
             /\ ManualRejected(req'[r])
             /\ orders' = orders /\ sent' = sent)]_vars

\* the confirm_order request got as far as the amount verification
ReachedAmountCheck(rq) ==
    /\ rq.kind = "confirm"
    /\ \/ rq.pc = "co_create"
       \/ rq.pc = "done"
          /\ rq.body \in {"amount_mismatch", "TypeError", "order_conflict",
                          "order_created"}

ExpectedTotal(rq) == calculate_order_total(rq.payload.items, catalog)[4]

\* C6: amount integrity: a confirm_order request whose captured amount
\* differs from the recomputed total by more than one cent ends 400 with
\* the amount-mismatch error and persists no Order and no OrderItem.
C6_AmountIntegrity ==
    /\ [](\A r \in Slots :
            (ReachedAmountCheck(req[r])
             /\ Abs(req[r].paid - ExpectedTotal(req[r])) > 1)
            => (/\ req[r].pc = "done" /\ req[r].code = 400
                /\ req[r].body = "amount_mismatch" /\ req[r].rorder = None))
    /\ [][\A r \in Slots :
            (req'[r] # req[r] /\ req'[r].body = "amount_mismatch")
            => (orders' = orders /\ orderItems' = orderItems)]_vars

\* a request rejected for a difference of two cents, with an order on file
C6_Witness ==
    \E r \in Slots :
        /\ req[r].body = "amount_mismatch" /\ req[r].code = 400
        /\ Abs(req[r].paid - ExpectedTotal(req[r])) = 2
        /\ Len(orders) > 0

\* the cart of the example: product 1 x 2 at 100.00, product 2 x 1 at 50.00
ExampleCart(rq) ==
    /\ ReachedAmountCheck(rq)
    /\ rq.payload = GoodPayload
    /\ ExpectedTotal(rq) = 25000

\* C7 as stated: for the 250.00 cart every captured amount of 249.99 or
\* less is rejected, 250.00 and 250.01 pass the amount verification.
C7_AsStated ==
    \A r \in Slots :
        ExampleCart(req[r])
        => /\ req[r].paid <= 24999 => req[r].body = "amount_mismatch"
           /\ req[r].paid \in {25000, 25001} => req[r].body # "amount_mismatch"

\* C7 amended: for the 250.00 cart every captured amount of 249.98 or
\* less is rejected; 249.99, 250.00 and 250.01 pass the amount
\* verification.
C7_Amended ==
    \A r \in Slots :
        ExampleCart(req[r])
        => /\ req[r].paid <= 24998 => req[r].body = "amount_mismatch"
           /\ req[r].paid \in {24999, 25000, 25001}
                => req[r].body # "amount_mismatch"

\* 249.99 captured for the 250.00 cart got past the amount verification
C7_Witness ==
    \E r \in Slots :
        /\ ExampleCart(req[r])
        /\ req[r].paid = 24999
        /\ req[r].pc = "co_create"

\* the step of request r that ends a first-time confirmation whose mail
\* was not handed to send_mail
MailFailedStep(r) ==
    /\ req'[r].pc = "done"
    /\ sent' = sent
    /\ \/ req[r].pc = "ad_confirm"
       \/ /\ req[r].pc = "pm_apply"
          /\ req'[r].body = "confirmed"

\* C11: a dispatch failure after a first-time confirmation does not undo
\* or fail it: the step leaves the payment fields of the row as they were
\* written (paid by the PayMe endpoint's own transaction), the row is
\* confirmed, the admin path answers success with the warning, the
\* endpoint answers 200 with the order, and no mail is sent afterwards by
\* the finished request.
C11_MailFailureKeepsConfirmation ==
    [][\A r \in Slots :
         MailFailedStep(r)
         => LET id == req[r].oid IN
            /\ orders'[id].confirmed_at # None
            /\ req[r].pc = "ad_confirm"
                 => /\ orders'[id].payment_status = orders[id].payment_status
                    /\ orders'[id].status = orders[id].status
                    /\ orders'[id].paid_at = orders[id].paid_at
                    /\ req'[r].body = "True:email_failed"
            /\ req[r].pc = "pm_apply"
                 => /\ orders'[id].payment_status = "paid"
                    /\ orders'[id].status = "processing"
                    /\ req'[r].code = 200
            /\ req'[r].rorder = id]_vars

\* an admin confirmation answered with the warning, the order paid and
\* confirmed, no mail sent for it
C11_Witness ==
    \E r \in Slots :
        /\ req[r].kind = "admin"
        /\ req[r].body = "True:email_failed"
        /\ orders[req[r].rorder].payment_status = "paid"
        /\ orders[req[r].rorder].confirmed_at # None
        /\ sent[req[r].rorder] = 0

\* C12: a webhook delivery whose signature is missing or invalid, or whose
\* payload cannot be parsed, is answered 400 and has no side effect: no
\* dedup record, no handler dispatch, no change of any order or item.
C12_BadSignatureNoEffect ==
    /\ [](\A r \in Slots :
            (req[r].kind = "webhook" /\ req[r].sig # "valid")
            => (req[r].pc = "done" /\ req[r].code = 400))
    /\ [][\A r \in Slots :
            (req'[r] # req[r] /\ req'[r].kind = "webhook"
             /\ req'[r].sig # "valid")
            => (/\ webhookEvents' = webhookEvents
                /\ handled' = handled
                /\ orders' = orders
                /\ orderItems' = orderItems
                /\ sent' = sent)]_vars

\* an unsigned payment_intent.succeeded for the reference of a pending
\* order: rejected, the event not recorded, the order still pending
C12_Witness ==
    \E r \in Slots :
        /\ req[r].kind = "webhook" /\ req[r].sig = "missing"
        /\ req[r].code = 400
        /\ req[r].ev = <<"payment_intent.succeeded", 1>>
        /\ req[r].ev \notin webhookEvents
        /\ \E i \in DOMAIN orders :
              /\ orders[i].stripe_payment_intent_id = 1
              /\ orders[i].payment_status = "pending"

\* C13: every webhook delivery that passes signature verification is
\* answered 200, whatever the event type and the ledger; without an order
\* for the payment reference no order is created or changed.
C13_ValidSignatureAlways200 ==
    /\ [](\A r \in Slots :
            (req[r].kind = "webhook" /\ req[r].sig = "valid"
             /\ req[r].pc = "done")
            => req[r].code = 200)
    /\ [][\A r \in Slots :
            (req[r].pc = "wh_load" /\ req'[r] # req[r]
             /\ ByIntent(orders, req[r].pi) = {})
            => (orders' = orders /\ orderItems' = orderItems)]_vars

\* C14: the conversion fails closed: with no rate on file for the pair the
\* conversion of the total is refused with a currency-unavailable error
\* and no rate is substituted.
C14_FailsClosed ==
    (quote.asked /\ quote.latest = None)
    => (quote.error = "CurrencyUnavailable" /\ quote.exchange_rate = None)

\* C15: the order confirm_order creates carries the payment method
\* detected from the gateway's payment-method details, whatever method the
\* client's payload names: the creation step of a request persists one
\* order whose payment_method is the detected one.
C15_DetectedMethodPersisted ==
    [][\A r \in Slots :
         (req[r].pc = "co_create" /\ req'[r] # req[r])
         => (/\ Len(orders') = Len(orders) + 1
             /\ orders'[Len(orders')].payment_method = req[r].method)]_vars

\* the payload has one of the defects the validation names
Defective(p) ==
    \/ Len(p.items) = 0
    \/ Len(p.items) > 50
    \/ \E i, j \in DOMAIN p.items :
          i # j /\ p.items[i].product_id = p.items[j].product_id
    \/ \E i \in DOMAIN p.items : p.items[i].product_id \notin DOMAIN catalog
    \/ \E i \in DOMAIN p.items : p.items[i].quantity > 100
    \/ p.delivery_days < 2
    \/ p.delivery_days > 90

\* the payload sits exactly at the limits and is sound otherwise
AtTheCaps(p) ==
    /\ p.contact_ok
    /\ p.items \in {<<[product_id |-> 1, quantity |-> 100]>>, CartOf(50)}
    /\ p.delivery_days \in {2, 90}

C17_FailedNeverPaid ==
    [][\A i \in DOMAIN orders :
         orders[i].payment_status = "failed"
         => orders'[i].payment_status # "paid"]_vars

\* C18: refunded is terminal: once payment_status is refunded no later
\* signal changes payment_status or the lifecycle status, and the row is
\* never deleted.
C18_RefundedTerminal ==
    [][\A i \in DOMAIN orders :
         orders[i].payment_status = "refunded"
         => (/\ i \in DOMAIN orders'
             /\ orders'[i].payment_status = "refunded"
             /\ orders'[i].status = orders[i].status)]_vars

\* C19: an order row for a card/wallet/redirect payment exists only after
\* the gateway reported the intent succeeded: create_payment_intent
\* persists no order, and confirm_order with a gateway status other than
\* succeeded, or a gateway error, ends with an error, persists no order
\* and changes no existing order.
C19_NoOrderBeforeSuccess ==
    /\ [](\A r \in Slots :
            (req[r].kind = "confirm" /\ req[r].gw \notin {"", "succeeded"})
            => (req[r].pc = "done" /\ req[r].code \in {400, 500}
                /\ req[r].rorder = None))
    /\ [][\A r \in Slots :
            (/\ req'[r] # req[r]
             /\ \/ req'[r].kind = "intent"
                \/ req'[r].kind = "confirm"
                   /\ req'[r].gw \notin {"", "succeeded"})
            => (orders' = orders /\ orderItems' = orderItems)]_vars

\* an intent was created with no order on file, and later a confirm_order
\* for an intent still processing was refused with an order on file
C19_Witness ==
    \E r, q \in Slots :
        /\ req[r].kind = "intent" /\ req[r].code = 200
        /\ req[q].kind = "confirm" /\ req[q].gw = "processing"
        /\ req[q].code = 400
        /\ \E i \in DOMAIN orders : orders[i].stripe_payment_intent_id = req[q].pi

\* the rows of order id are all on file: paid, confirmed, with line items
WholeOrder(tbl, items, id, pi) ==
    /\ id \in DOMAIN tbl
    /\ tbl[id].stripe_payment_intent_id = pi
    /\ tbl[id].payment_status = "paid"
    /\ tbl[id].confirmed_at # None
    /\ \E k \in DOMAIN items : items[k].order = id

MarkedPaid(o, m, pi, t) ==
    /\ m.payment_status = "paid"
    /\ m.status = "processing"
    /\ m.paid_at = t
    /\ m.payment_verified_at = t
    /\ m.stripe_payment_intent_id =
          IF o.stripe_payment_intent_id = None THEN pi
          ELSE o.stripe_payment_intent_id
    /\ \A f \in {"payment_method", "subtotal", "delivery_fee", "discount",
                 "total", "confirmed_at"} : m[f] = o[f]

\* the references a caller can hand to mark-paid: none, one an order on
\* file may hold, and one that no order on file holds
SuppliedRefs == PIs \cup {None, MaxPI + 1}

\* C21: mark-paid on an order that is not paid sets, in one persisted
\* update, payment_status = paid, status = processing, paid_at and
\* payment_verified_at to the current time, and the reference to the
\* supplied one only if the order had none: checked for every order on
\* file with every reference that can be supplied, and on every step that
\* turns a row paid.
C21_MarkPaidEffect ==
    /\ [](\A i \in DOMAIN orders, pi \in SuppliedRefs :
            orders[i].payment_status # "paid"
            => /\ MarkedPaid(orders[i], mark_as_paid(orders[i], pi, now), pi, now)
               /\ AfterMarkPaid(orders, i, orders[i], pi, now)
                    = [orders EXCEPT ![i] = mark_as_paid(orders[i], pi, now)])
    /\ [][\A i \in DOMAIN orders :
            (orders[i].payment_status # "paid"
             /\ orders'[i].payment_status = "paid")
            => (/\ orders'[i].status = "processing"
                /\ orders'[i].paid_at = now
                /\ orders'[i].payment_verified_at = now
                /\ orders[i].stripe_payment_intent_id # None
                     => orders'[i].stripe_payment_intent_id
                          = orders[i].stripe_payment_intent_id)]_vars

\* a success webhook turned a pending order paid and its reference is the
\* one it was created with
C21_Witness ==
    \E r \in Slots :
        /\ req[r].kind = "webhook" /\ req[r].body = "handled"
        /\ req[r].ev[1] = "payment_intent.succeeded"
        /\ \E i \in DOMAIN orders :
              /\ orders[i].stripe_payment_intent_id = req[r].ev[2]
              /\ orders[i].payment_status = "paid"
              /\ orders[i].status = "processing"
              /\ orders[i].paid_at # None

\* the payment status an event's handler leaves on its order
EventTarget(e) ==
    IF e[1] = "payment_intent.succeeded" THEN "paid"
    ELSE IF e[1] = "payment_intent.payment_failed" THEN "failed"
    ELSE "refunded"

\* a handler of event e is still running
HandlerRunning(e) ==
    \E r \in Slots : req[r].kind = "webhook" /\ req[r].ev = e
                     /\ req[r].pc \in {"wh_load", "wh_apply"}

\* C22: the dedup record is proof of handling: when a record exists for an
\* event and no handler of it is running, the event's transition has been
\* applied to its matching order; in particular an event whose handler
\* failed after the record was inserted is not answered as a duplicate,
\* with its order still untouched, when the gateway delivers it again.
C22_DedupRecordMeansApplied ==
    \A r1, r2 \in Slots :
        (/\ r1 # r2
         /\ req[r1].kind = "webhook" /\ req[r1].pc = "done" /\ req[r1].code = 500
         /\ req[r1].ev \in webhookEvents
         /\ ~HandlerRunning(req[r1].ev)
         /\ req[r2].kind = "webhook" /\ req[r2].ev = req[r1].ev
         /\ req[r2].sig = "valid" /\ req[r2].pc = "done")
        => \/ req[r2].body # "duplicate"
           \/ \E i \in ByIntent(orders, req[r1].ev[2]) :
                 orders[i].payment_status = EventTarget(req[r1].ev)

(***************************************************************************)
(* The catalog under change: Product.price is edited in the product admin  *)
(* while create_order runs.  create_order reads every product's price in   *)
(* calculate_order_total, then again to build the line items, and only     *)
(* then opens its transaction.                                             *)
(***************************************************************************)
\* the product whose price the product admin edits, and the prices (cents)
\* it is given
RepricedProducts == {1}
PriceChoices == {10000, 12000}

\* a save of a Product with a new price
UpdatePrice ==
    \E p \in RepricedProducts, price \in PriceChoices :
        /\ catalog[p] # price
        /\ catalog' = [catalog EXCEPT ![p] = price]
        /\ UNCHANGED <<orders, orderItems, webhookEvents, req, now, sent,
                       handled, rates, quote, draft>>

\* create_order up to the end of calculate_order_total
CreateOrderTotals ==
    \E p \in Payloads, pi \in PIs \cup {None} :
        /\ ~draft.active
        /\ Len(orders) < MaxOrders
        /\ create_order_binds({"stripe_payment_intent_id"})
        /\ is_valid(p, catalog)
        /\ draft' = [active |-> TRUE, payload |-> p, pi |-> pi,
                     totals |-> calculate_order_total(p.items, catalog)]
        /\ UNCHANGED <<orders, orderItems, webhookEvents, catalog, req, now,
                       sent, handled, rates, quote>>

\* the rest of create_order: the second read of the prices for the line
\* items, then the insert of the order and its items in one transaction
CreateOrderInsert ==
    /\ draft.active
    /\ \E n \in OrderNumberSuffixes :
       LET t == draft.totals
           row == [generate_order_number(
                       create_order_row(draft.payload, draft.pi, catalog), n)
                   EXCEPT
                     !.subtotal = t[1], !.delivery_fee = t[2],
                     !.discount = t[3], !.total = t[4]]
       IN /\ InsertAllowed(orders, row)
          /\ orders' = Append(orders, row)
          /\ orderItems' = orderItems
                 \o create_order_items(draft.payload, Len(orders) + 1, catalog)
    /\ draft' = NoDraft
    /\ UNCHANGED <<webhookEvents, catalog, req, now, sent, handled, rates, quote>>

\* the requests that run next to the catalog changes
CatalogSlots == Slots

\* the operations that write an order, next to the catalog and create_order
NextCatalog ==
    \/ UpdatePrice
    \/ CreateOrderTotals
    \/ CreateOrderInsert
    \/ \E r \in CatalogSlots :
        \/ WebhookReceive(r)
        \/ WebhookLoad(r)
        \/ WebhookApply(r)
        \/ AdminLoad(r)
        \/ AdminMarkPaid(r)
        \/ AdminConfirm(r)
        \/ PayMeConfirmLoad(r)
        \/ PayMeConfirmApply(r)

SpecCatalog == Init /\ [][NextCatalog]_vars

\* the lines of order i
ItemsOf(i) == SelectSeq(orderItems, LAMBDA it : it.order = i)

RECURSIVE SumLineTotals(_, _)
SumLineTotals(items, n) ==
    IF n = 0 THEN 0 ELSE SumLineTotals(items, n - 1) + items[n].line_total

\* C28: for every persisted order the sum of its items' line_total equals
\* the order's subtotal, and every item's line_total equals its snapshot
\* product_price times its quantity, also when a catalog price update falls
\* between the two reads of create_order.
C28_LinesMatchSubtotal ==
    \A i \in DOMAIN orders :
        /\ SumLineTotals(ItemsOf(i), Len(ItemsOf(i))) = orders[i].subtotal
        /\ \A k \in DOMAIN ItemsOf(i) :
              ItemsOf(i)[k].line_total
                = ItemsOf(i)[k].product_price * ItemsOf(i)[k].quantity

\* the money fields of an order
MoneyFields == {"subtotal", "delivery_fee", "discount", "total"}

\* C23: every persisted order has total = subtotal + delivery_fee -
\* discount; the subtotal is the one computed from the catalog prices
\* current when create_order computed it; and no later step (mark-paid, a
\* webhook handler, an admin confirmation, a catalog price change) alters
\* subtotal, delivery_fee, discount or total.
C23_TotalsFixedAtCreation ==
    /\ [](\A i \in DOMAIN orders :
            orders[i].total
              = orders[i].subtotal + orders[i].delivery_fee - orders[i].discount)
    /\ [][/\ \A i \in DOMAIN orders :
               \A f \in MoneyFields : orders'[i][f] = orders[i][f]
          /\ (~draft.active /\ draft'.active)
             => draft'.totals[1]
                  = SumLines(draft'.payload.items, catalog,
                             Len(draft'.payload.items))
          /\ (draft.active /\ ~draft'.active)
             => /\ orders'[Len(orders')].subtotal = draft.totals[1]
                /\ orders'[Len(orders')].delivery_fee = draft.totals[2]
                /\ orders'[Len(orders')].discount = draft.totals[3]
                /\ orders'[Len(orders')].total = draft.totals[4]]_vars

\* an order created at the old price is paid and confirmed by the admin
\* after the catalog price rose, and still carries the old totals
C23_Witness ==
    \E i \in DOMAIN orders :
        /\ orders[i].payment_status = "paid"
        /\ orders[i].confirmed_at # None
        /\ orders[i].subtotal = 25000 /\ orders[i].total = 25000
        /\ catalog[1] = 12000

\* C24: every order's order number is assigned exactly once, at first
\* persistence, and no later save changes it; in every reachable state no
\* two orders share an order number.
C24_OrderNumberOnceAndUnique ==
    /\ [](/\ \A i \in DOMAIN orders : orders[i].order_number \in OrderNumberSuffixes
          /\ \A i, j \in DOMAIN orders :
                i # j => orders[i].order_number # orders[j].order_number)
    /\ [][\A i \in DOMAIN orders :
             orders'[i].order_number = orders[i].order_number]_vars

\* two numbered orders on file, one of them since paid and confirmed
C24_Witness ==
    /\ Len(orders) = 2
    /\ orders[1].order_number # orders[2].order_number
    /\ \E i \in DOMAIN orders :
          orders[i].payment_status = "paid" /\ orders[i].confirmed_at # None

\* C25: confirmed_at is set at most once per order: once it holds a value,
\* no later step (a repeated or concurrent admin confirmation, an API
\* confirmation, a webhook) changes it.
C25_ConfirmedAtSetOnce ==
    [][\A i \in DOMAIN orders :
          orders[i].confirmed_at # None
          => orders'[i].confirmed_at = orders[i].confirmed_at]_vars

\* the ids of the rows of the rate table
RateIds(tbl) == {tbl[i].id : i \in DOMAIN tbl}

\* the row appended last: the one with the greatest id
NewestRow(tbl) ==
    CHOOSE row \in {tbl[i] : i \in DOMAIN tbl} :
        \A i \in DOMAIN tbl : tbl[i].id <= row.id

\* C26: the rate store is append-only and the current rate is the most
\* recent record: over any sequence of rate updates (API success, API
\* failure, cleanup) no existing record is modified, a record just
\* appended is the one get_latest_rate returns, and get_latest_rate
\* returns the rate of the record appended last, or none without a record.
C26_AppendOnlyLatest ==
    /\ [](get_latest_rate(rates)
            = IF Len(rates) = 0 THEN None ELSE NewestRow(rates).rate)
    /\ [][/\ \A i \in DOMAIN rates, j \in DOMAIN rates' :
                rates'[j].id = rates[i].id => rates'[j] = rates[i]
          /\ \A j \in DOMAIN rates' :
                rates'[j].id \notin RateIds(rates)
                => /\ get_latest_rate(rates') = rates'[j].rate
                   /\ \A i \in DOMAIN rates : rates[i].id < rates'[j].id]_vars

\* two records with different rates on file after a cleanup removed the
\* first one, and a conversion read the newer one
C26_Witness ==
    /\ Len(rates) = 2
    /\ rates[1].id > 1
    /\ rates[1].rate # rates[2].rate
    /\ quote.asked /\ quote.latest = rates[2].rate

\* C30: once the rate store holds a record it never becomes empty again
\* and get_latest_rate keeps returning a rate; records are deleted only in
\* a run that appended a fresh record, which it keeps; a run whose fetch
\* failed over a non-empty store appends and deletes nothing.
C30_StoreNeverEmptiesAgain ==
    /\ [](Len(rates) > 0 => get_latest_rate(rates) # None)
    /\ [][/\ Len(rates) > 0 => Len(rates') > 0
          /\ (RateIds(rates) \ RateIds(rates') # {})
             => \E j \in DOMAIN rates' :
                   /\ rates'[j].id \notin RateIds(rates)
                   /\ rates'[j].created_at = now
          /\ \A ans \in ApiAnswers :
                (/\ fetch_exchange_rate_from_api(ans) = None
                 /\ Len(rates) > 0
                 /\ UpdateExchangeRateOn(ans))
                => rates' = rates]_vars

\* a cleanup deleted every older record and left the fresh one alone
C30_Witness ==
    /\ Len(rates) = 1
    /\ rates[1].id > 2
    /\ rates[1].created_at = now
    /\ now > RateKeepDays + 1

\* the (payment_status, status) pairs the reconciliation writes
StatusPairs ==
    {<<"pending", "pending">>, <<"paid", "processing">>,
     <<"failed", "failed">>, <<"refunded", "refunded">>}

\* C27: in every committed state each order's (payment_status, status)
\* pair is one of (pending, pending), (paid, processing), (failed, failed),
\* (refunded, refunded): no interleaving of success, failure and refund
\* webhooks with confirmations leaves a mixed pair.
C27_StatusPairs ==
    \A i \in DOMAIN orders :
        <<orders[i].payment_status, orders[i].status>> \in StatusPairs

\* a failure webhook and a success webhook were both applied to one order,
\* which a handler loaded before the other one wrote
C27_Witness ==
    \E r1, r2 \in Slots :
        /\ req[r1].kind = "webhook" /\ req[r1].body = "handled"
        /\ req[r2].kind = "webhook" /\ req[r2].body = "handled"
        /\ req[r1].ev[1] = "payment_intent.payment_failed"
        /\ req[r2].ev[1] = "payment_intent.succeeded"
        /\ req[r1].ev[2] = req[r2].ev[2]
        /\ \E i \in ByIntent(orders, req[r1].ev[2]) :
              orders[i].payment_status \in {"paid", "failed"}

\* slot r takes a step of a request of one of these kinds
StepOf(r, kinds) == req'[r] # req[r] /\ req'[r].kind \in kinds

\* C29: a peer-transfer order (created with a null payment reference) is
\* never modified by a webhook event or by confirm_order: no step of a
\* webhook delivery or of a confirm_order request changes it, and its
\* payment_status, status and timestamps change only in a step of a
\* confirmation of that order (Django admin or the PayMe confirm endpoint).
C29_PeerTransferUntouched ==
    [][\A i \in DOMAIN orders :
          orders[i].stripe_payment_intent_id = None
          => /\ (\E r \in Slots : StepOf(r, {"webhook", "confirm"}))
                => orders'[i] = orders[i]
             /\ orders'[i] # orders[i]
                => \E r \in Slots :
                      /\ StepOf(r, {"admin", "payme_confirm"})
                      /\ req[r].oid = i]_vars

\* a refund event without a payment intent was delivered with a valid
\* signature and a success event was applied to a card order, with a
\* pending peer-transfer order on file
C29_Witness ==
    /\ \E i \in DOMAIN orders :
          /\ orders[i].stripe_payment_intent_id = None
          /\ orders[i].payment_status = "pending"
    /\ \E r1, r2 \in Slots :
          /\ req[r1].kind = "webhook" /\ req[r1].sig = "valid"
          /\ req[r1].ev = <<"charge.refunded", None>> /\ req[r1].pc = "done"
          /\ req[r2].kind = "webhook" /\ req[r2].body = "handled"
====
